---- MODULE Spec2Model ----
(***************************************************************************)
(* AquaServer (src/server.js): the per-user settings store kept in         *)
(* users.json, the settings-save handlers, and the two colour engines      *)
(* (GET /api/auto-light, GET /api/light-timer-color).                      *)
(*                                                                         *)
(* src/server.js holds two copies of the server: lines 1-424 (copy 1,      *)
(* with the timer routes and the autoDaylight/lightTimer coupling) and     *)
(* lines 426-661 (copy 2, without them). Both read and write the same      *)
(* users.json. Every handler of the file is an action; where the two       *)
(* copies of a handler differ, each copy is an action of its own and the   *)
(* response names the copy that answered.                                  *)
(*                                                                         *)
(* requests holds the POST requests the server has received and not yet    *)
(* handed to a handler, and for each one how far its handler has run; the  *)
(* routes taken one request at a time leave it empty.                      *)
(*                                                                         *)
(* Encoding of JavaScript values:                                          *)
(*   booleans and undefined   "true", "false", "undefined"; the number 1   *)
(*                            in a flag field is "1" (truthy, not boolean) *)
(*   optional number/object   <<>> when undefined, <<v>> when present      *)
(*   strings that are parsed  sequences of one-character strings           *)
(***************************************************************************)
EXTENDS Integers, Sequences, FiniteSets, TLC

VARIABLES settings, resp, engine, requests

vars == <<settings, resp, engine, requests>>

(***************************************************************************)
(* Bounds and input sets                                                   *)
(***************************************************************************)
\* longest lightTimers array a POST /api/timers body carries
MaxTimers == 2

\* longest stored lightTimers array the timer engine is run on
MaxStoredTimers == 2

MinutesPerDay == 1440

\* "HH:MM" as the characters of the string
T(h1, h2, m1, m2) == <<h1, h2, ":", m1, m2>>

\* "#RRGGBB" as the characters of the string
Hex(s) == <<"#">> \o s

Orange == Hex(<<"F", "F", "9", "9", "0", "0">>)
Blue == Hex(<<"0", "0", "0", "0", "f", "f">>)
\* a colour string without the optional leading '#'
Green == <<"0", "0", "F", "F", "0", "0">>

\* the window of the spec's round-trip example
DayWindow ==
    [fadeIn |-> T("0", "6", "0", "0"), peakStart |-> T("0", "7", "0", "0"),
     peakEnd |-> T("1", "9", "0", "0"), fadeOut |-> T("2", "0", "0", "0"),
     color |-> Orange]

\* a window whose peak spans midnight and that overlaps DayWindow's fade-out
NightWindow ==
    [fadeIn |-> T("1", "9", "0", "0"), peakStart |-> T("2", "2", "0", "0"),
     peakEnd |-> T("0", "2", "0", "0"), fadeOut |-> T("0", "6", "3", "0"),
     color |-> Blue]

\* a window with no fade-in and no fade-out, inside DayWindow's peak
NoonWindow ==
    [fadeIn |-> T("1", "2", "0", "0"), peakStart |-> T("1", "2", "0", "0"),
     peakEnd |-> T("2", "0", "0", "0"), fadeOut |-> T("2", "0", "0", "0"),
     color |-> Green]

\* the boundaries the single windows of the engine runs are built from
TimeGrid ==
    {T("0", "2", "0", "0"), T("0", "6", "0", "0"), T("0", "7", "0", "0"),
     T("1", "2", "0", "0"), T("1", "9", "0", "0"), T("2", "0", "0", "0"),
     T("2", "2", "0", "0")}

\* every window with its four boundaries on the grid, in any order
GridWindows ==
    [fadeIn : TimeGrid, peakStart : TimeGrid, peakEnd : TimeGrid, fadeOut : TimeGrid,
     color : {Orange}]

\* the windows a POST /api/timers body is built from
WindowCatalog == {DayWindow, NightWindow}

RECURSIVE SeqsUpTo(_, _)
SeqsUpTo(S, n) ==
    IF n = 0 THEN {<<>>}
    ELSE LET shorter == SeqsUpTo(S, n - 1)
         IN  shorter \cup {Append(s, x) : s \in {q \in shorter : Len(q) = n - 1}, x \in S}

\* req.body.lightTimers: undefined (<<>>) or an array (<<list>>)
LightTimersInputs == {<<>>} \cup {<<l>> : l \in SeqsUpTo(WindowCatalog, MaxTimers)}

\* req.body flags: a boolean, absent, or a truthy non-boolean
FlagInputs == {"true", "false", "undefined", "1"}

\* req.body.brightness: absent, in range, or out of range (no handler validates it)
BrightnessInputs == {<<>>, <<0>>, <<128>>, <<255>>, <<510>>}

\* wall-clock minutes since midnight at which a GET arrives
NowInputs == {60, 360, 390, 720, 1079, 1080, 1170, 1380}

(***************************************************************************)
(* JavaScript helpers                                                      *)
(***************************************************************************)
\* !!v for a flag value
Truthy(v) == v \in {"true", "1"}

\* typeof v === "boolean"
IsBoolean(v) == v \in {"true", "false"}

\* Math.round(num / den) for den > 0: nearest integer, halves towards +infinity
Round(num, den) == (2 * num + den) \div (2 * den)

\* user.settings.brightness || 255
BrightnessOrDefault(b) == IF b = <<>> \/ b[1] = 0 THEN 255 ELSE b[1]

\* JavaScript's a % n: the remainder takes the sign of the dividend
JsMod(a, n) == IF a >= 0 THEN a % n ELSE 0 - ((0 - a) % n)

HexDigits ==
    <<"0", "1", "2", "3", "4", "5", "6", "7", "8", "9", "a", "b", "c", "d", "e", "f">>

UpperHexDigits ==
    <<"0", "1", "2", "3", "4", "5", "6", "7", "8", "9", "A", "B", "C", "D", "E", "F">>

\* the value of each hex digit, either case
HexValues ==
    [c \in {HexDigits[i] : i \in 1..16} \cup {UpperHexDigits[i] : i \in 1..16} |->
        (CHOOSE i \in 1..16 : HexDigits[i] = c \/ UpperHexDigits[i] = c) - 1]

IsHexDigit(c) == c \in DOMAIN HexValues

HexValue(c) == HexValues[c]

\* Number(piece) for a piece made of decimal digits ("" is 0)
RECURSIVE Number(_)
Number(s) ==
    IF s = <<>> THEN 0
    ELSE 10 * Number(SubSeq(s, 1, Len(s) - 1)) + HexValue(s[Len(s)])

\* position of the first occurrence of character c in s, 0 when there is none
IndexOf(s, c) ==
    IF \E i \in 1..Len(s) : s[i] = c
    THEN CHOOSE i \in 1..Len(s) : s[i] = c /\ \A j \in 1..(i - 1) : s[j] # c
    ELSE 0

\* timeStr.split(":"): the first two pieces (the text before the first ':' and
\* the text between the first and the second ':')
SplitColon(s) ==
    LET i == IndexOf(s, ":")
        rest == SubSeq(s, i + 1, Len(s))
        j == IndexOf(rest, ":")
    IN  IF i = 0 THEN <<s>>
        ELSE <<SubSeq(s, 1, i - 1), IF j = 0 THEN rest ELSE SubSeq(rest, 1, j - 1)>>

\* timeToMinutes for "H:M" strings of decimal digits: h * 60 + m
timeToMinutes(timeStr) ==
    LET hm == SplitColon(timeStr)
    IN  Number(hm[1]) * 60 + Number(hm[2])

\* hex.replace("#", ""): the first '#' is removed
ReplaceHash(hex) ==
    LET i == IndexOf(hex, "#")
    IN  IF i = 0 THEN hex ELSE SubSeq(hex, 1, i - 1) \o SubSeq(hex, i + 1, Len(hex))

\* parseInt(s, 16): the value of the longest prefix of hex digits; <<>> is NaN
RECURSIVE HexPrefixValue(_, _)
HexPrefixValue(s, acc) ==
    IF s = <<>> \/ ~IsHexDigit(s[1]) THEN acc
    ELSE HexPrefixValue(Tail(s), 16 * acc + HexValue(s[1]))

parseInt16(s) ==
    IF s = <<>> \/ ~IsHexDigit(s[1]) THEN <<>> ELSE <<HexPrefixValue(s, 0)>>

\* (n >> k) & 255 with shift = 2^k, for n below 2^31; NaN converts to 0
ShiftMask(n, shift) ==
    IF n = <<>> THEN 0 ELSE (n[1] \div shift) % 256

hexToRgb(hex) ==
    LET bigint == parseInt16(ReplaceHash(hex))
    IN  [r |-> ShiftMask(bigint, 65536), g |-> ShiftMask(bigint, 256),
         b |-> ShiftMask(bigint, 1)]

(***************************************************************************)
(* The timer fade engine: GET /api/light-timer-color, lines 375-420        *)
(***************************************************************************)
\* (end - start + 1440) % 1440
CyclicDistance(start, end) == JsMod(end - start + MinutesPerDay, MinutesPerDay)

\* lines 376-380: the boundaries in minutes and the colour as {r, g, b}
ParseTimer(timer) ==
    [fadeIn |-> timeToMinutes(timer.fadeIn), peakStart |-> timeToMinutes(timer.peakStart),
     peakEnd |-> timeToMinutes(timer.peakEnd), fadeOut |-> timeToMinutes(timer.fadeOut),
     color |-> hexToRgb(timer.color)]

\* the fade-in test with <= for <
InFadeInInclusive(t, nowMins) ==
    CyclicDistance(t.fadeIn, nowMins) <= CyclicDistance(t.fadeIn, t.peakStart)

\* fadeInElapsed < fadeInDuration (line 385), t a parsed timer
InFadeIn(t, nowMins) ==
    CyclicDistance(t.fadeIn, nowMins) < CyclicDistance(t.fadeIn, t.peakStart)

\* inPeak without the branch for a peak that spans midnight
InPeakNoWrap(t, nowMins) ==
    t.peakStart <= t.peakEnd /\ nowMins >= t.peakStart /\ nowMins < t.peakEnd

\* inPeak with peakEnd inside the peak
InPeakInclusive(t, nowMins) ==
    \/ (t.peakStart <= t.peakEnd /\ nowMins >= t.peakStart /\ nowMins <= t.peakEnd)
    \/ (t.peakStart > t.peakEnd /\ (nowMins >= t.peakStart \/ nowMins <= t.peakEnd))

\* inPeak (lines 395-397)
InPeak(t, nowMins) ==
    \/ (t.peakStart <= t.peakEnd /\ nowMins >= t.peakStart /\ nowMins < t.peakEnd)
    \/ (t.peakStart > t.peakEnd /\ (nowMins >= t.peakStart \/ nowMins < t.peakEnd))

\* fadeOutElapsed < fadeOutDuration (line 409)
InFadeOut(t, nowMins) ==
    CyclicDistance(t.peakEnd, nowMins) < CyclicDistance(t.peakEnd, t.fadeOut)

\* The inputs <<c, elapsed, duration, brightness>>, among those the model
\* draws, on which the double-precision evaluation of
\*   Math.round((c * (1 - elapsed / duration) * brightness) / 255)
\* differs from the exact value: c * (1 - elapsed/duration) * brightness / 255
\* is exactly a half there, 1 - elapsed / duration is rounded to the double
\* just below it, and Math.round returns the integer below the half. On every
\* other input the model draws (fade-in, peak and the daylight curve included)
\* the double-precision result and the exact one are the same integer.
RoundedBelowHalf ==
    {<<153, 300, 360, 255>>, <<153, 300, 720, 510>>, <<153, 450, 1080, 510>>,
     <<153, 660, 1080, 255>>, <<153, 690, 1020, 255>>, <<153, 750, 900, 255>>,
     <<255, 270, 300, 255>>, <<255, 300, 360, 255>>, <<255, 300, 720, 510>>,
     <<255, 450, 1080, 510>>, <<255, 690, 1020, 255>>, <<255, 750, 900, 255>>}

\* lines 386-390: Math.round((c * progress * brightness) / 255) with
\* progress = elapsed / duration; 0 stands in for the NaN of a zero duration
FadeInChannel(c, elapsed, duration, brightness) ==
    IF duration = 0 THEN 0 ELSE Round(c * elapsed * brightness, duration * 255)

\* the fade-out channel with progress = elapsed / duration (not inverted)
FadeOutChannelNotInverted(c, elapsed, duration, brightness) ==
    IF duration = 0 THEN 0 ELSE Round(c * elapsed * brightness, duration * 255)

\* lines 410-414: the same with progress = 1 - elapsed / duration
FadeOutChannel(c, elapsed, duration, brightness) ==
    IF duration = 0 THEN 0
    ELSE Round(c * (duration - elapsed) * brightness, duration * 255)
         - (IF <<c, elapsed, duration, brightness>> \in RoundedBelowHalf THEN 1 ELSE 0)

FadeChannel(state, c, elapsed, duration, brightness) ==
    IF state = "fadeIn" THEN FadeInChannel(c, elapsed, duration, brightness)
    ELSE FadeOutChannel(c, elapsed, duration, brightness)

\* the body sent for a fade state; a NaN progress makes every channel NaN,
\* which res.json writes as null ("rgbNaN")
FadedColor(state, color, elapsed, duration, brightness) ==
    [kind |-> IF duration = 0 THEN "rgbNaN" ELSE "rgb",
     r |-> FadeChannel(state, color.r, elapsed, duration, brightness),
     g |-> FadeChannel(state, color.g, elapsed, duration, brightness),
     b |-> FadeChannel(state, color.b, elapsed, duration, brightness),
     state |-> state, duration |-> duration]

\* Math.round((c * brightness) / 255) per channel
PeakColor(color, brightness) ==
    [kind |-> "rgb",
     r |-> Round(color.r * brightness, 255),
     g |-> Round(color.g * brightness, 255),
     b |-> Round(color.b * brightness, 255),
     state |-> "peak", duration |-> 0]

NoColor == [kind |-> "null", r |-> 0, g |-> 0, b |-> 0, state |-> "none", duration |-> 0]

\* lines 383-416 for a parsed timer: the response the iteration returns, or
\* NoColor when it falls through to the next timer
EvalParsed(t, nowMins, brightness) ==
    IF InFadeIn(t, nowMins)
    THEN FadedColor("fadeIn", t.color, CyclicDistance(t.fadeIn, nowMins),
                    CyclicDistance(t.fadeIn, t.peakStart), brightness)
    ELSE IF InPeak(t, nowMins)
    THEN PeakColor(t.color, brightness)
    ELSE IF InFadeOut(t, nowMins)
    THEN FadedColor("fadeOut", t.color, CyclicDistance(t.peakEnd, nowMins),
                    CyclicDistance(t.peakEnd, t.fadeOut), brightness)
    ELSE NoColor

\* one iteration of the loop body (lines 376-416)
EvalTimer(timer, nowMins, brightness) ==
    CHOOSE out \in {EvalParsed(t, nowMins, brightness) : t \in {ParseTimer(timer)}} : TRUE

\* the scan with the last timer that returns deciding
RECURSIVE ScanTimersLastWins(_, _, _, _)
ScanTimersLastWins(lightTimers, i, nowMins, brightness) ==
    IF i > Len(lightTimers) THEN NoColor @@ [index |-> 0]
    ELSE CHOOSE result \in
             {IF later.kind # "null" THEN later
              ELSE IF out.kind # "null" THEN out @@ [index |-> i]
              ELSE NoColor @@ [index |-> 0] :
                 out \in {EvalTimer(lightTimers[i], nowMins, brightness)},
                 later \in {ScanTimersLastWins(lightTimers, i + 1, nowMins, brightness)}} : TRUE

\* for (const timer of lightTimers), from position i: the first iteration that
\* returns decides; index is the position of that timer, 0 when none returned
RECURSIVE ScanTimers(_, _, _, _)
ScanTimers(lightTimers, i, nowMins, brightness) ==
    IF i > Len(lightTimers) THEN NoColor @@ [index |-> 0]
    ELSE CHOOSE result \in
             {IF out.kind # "null" THEN out @@ [index |-> i]
              ELSE ScanTimers(lightTimers, i + 1, nowMins, brightness) :
                 out \in {EvalTimer(lightTimers[i], nowMins, brightness)}} : TRUE

\* the colour computation without the lightTimerEnabled test
computeTimerColorAlwaysOn(timers, storedBrightness, nowMins) ==
    IF timers.lightTimers = <<>>
    THEN NoColor @@ [index |-> 0]
    ELSE ScanTimers(timers.lightTimers[1], 1, nowMins, BrightnessOrDefault(storedBrightness))

\* lines 365-420: the colour computation once the timers block is found
computeTimerColor(timers, storedBrightness, nowMins) ==
    IF ~Truthy(timers.lightTimerEnabled) \/ timers.lightTimers = <<>>
    THEN NoColor @@ [index |-> 0]
    ELSE ScanTimers(timers.lightTimers[1], 1, nowMins, BrightnessOrDefault(storedBrightness))

(***************************************************************************)
(* The daylight curve: GET /api/auto-light                                 *)
(***************************************************************************)
\* Math.sin(((time - 6) / 12) * Math.PI) in units of 1/2000, at the minutes of
\* the daylight span the model samples
SinTable ==
    [m \in {360, 390, 420, 480, 540, 600, 720, 840, 900, 960, 1020, 1079} |->
        CASE m = 360 -> 0 [] m = 390 -> 261 [] m = 420 -> 518 [] m = 480 -> 1000
          [] m = 540 -> 1414 [] m = 600 -> 1732 [] m = 720 -> 2000
          [] m = 840 -> 1732 [] m = 900 -> 1414 [] m = 960 -> 1000
          [] m = 1020 -> 518 [] m = 1079 -> 9]

SinOne == SinTable[720]

sunriseColor == [r |-> 255, g |-> 150, b |-> 50]
noonColor == [r |-> 255, g |-> 255, b |-> 255]
sunsetColor == [r |-> 255, g |-> 100, b |-> 100]
nightColor == [r |-> 20, g |-> 20, b |-> 60]

\* one channel of the interpolated colour, in units of 1/SinOne
DayChannel(nowMins, ch) ==
    LET intensity == SinTable[nowMins]
    IN  IF nowMins < 720
        THEN SinOne * sunriseColor[ch] + intensity * (noonColor[ch] - sunriseColor[ch])
        ELSE SinOne * noonColor[ch] - (SinOne - intensity) * (noonColor[ch] - sunsetColor[ch])

IsNight(nowMins) == nowMins < 360 \/ nowMins >= 1080

\* copy 1, lines 88-127: every channel is scaled by brightness
DaylightColor1(storedBrightness, nowMins) ==
    LET brightness == BrightnessOrDefault(storedBrightness)
    IN  IF IsNight(nowMins)
        THEN [ch \in {"r", "g", "b"} |-> Round(nightColor[ch] * brightness, 255)]
        ELSE [ch \in {"r", "g", "b"} |->
                 Round(DayChannel(nowMins, ch) * brightness, SinOne * 255)]

\* copy 2, lines 491-533: no brightness is read
DaylightColor2(nowMins) ==
    IF IsNight(nowMins)
    THEN nightColor
    ELSE [ch \in {"r", "g", "b"} |-> Round(DayChannel(nowMins, ch), SinOne)]

(***************************************************************************)
(* The store and the responses                                             *)
(***************************************************************************)
\* user.settings as /register writes it: {}
EmptySettings ==
    [r |-> <<>>, g |-> <<>>, b |-> <<>>, filter |-> "undefined", brightness |-> <<>>,
     autoDaylight |-> "undefined", timers |-> <<>>]

\* user.settings.timers = {}
EmptyTimers ==
    [lightTimerEnabled |-> "undefined", co2TimerEnabled |-> "undefined",
     lightTimers |-> <<>>, co2Timers |-> <<>>]

\* a response: the route, the copy of the handler that answered, the HTTP
\* status and the fields of the JSON body (flag is
\* lightTimerDisabledByAutoDaylight, "undefined" when the body has none)
Response(route, copy, status, kind) ==
    [route |-> route, copy |-> copy, status |-> status, kind |-> kind,
     r |-> 0, g |-> 0, b |-> 0, flag |-> "undefined"]

NoResponse == Response("none", 0, 0, "none")

\* what the last colour computation read and where it stopped: the wall-clock
\* minute, and for the timer scan the timer and the state that returned
Idle == [index |-> 0, state |-> "none", duration |-> 0, now |-> 0]

\* a request that ends in an early return: the store is not written
EarlyReturn(route, copy, status, kind) ==
    /\ resp' = Response(route, copy, status, kind)
    /\ engine' = Idle
    /\ UNCHANGED <<settings, requests>>

\* authMiddleware (lines 45-61, 469-485) answers a request to a POST route
\* itself: 401 without a token, 403 with a bad one; the handler is not run
authMiddleware ==
    \/ EarlyReturn("authMiddleware", 1, 401, "message")
    \/ EarlyReturn("authMiddleware", 1, 403, "message")

\* the one registered user, as /register leaves it (lines 149-156). No route
\* removes a user, so a verified token always names a stored user and the
\* 404 returns of the POST handlers are not taken.
Init ==
    /\ settings = EmptySettings
    /\ resp = NoResponse
    /\ engine = Idle
    /\ requests = <<>>

(***************************************************************************)
(* Handlers                                                                *)
(***************************************************************************)
\* req.body of POST /settings
SettingsBodies ==
    {[r |-> <<255>>, g |-> <<153>>, b |-> <<0>>, filter |-> "none", brightness |-> x] :
        x \in BrightnessInputs}

\* lines 214-221: the stored settings with r, g, b, brightness, filter replaced
MergeSettings(old, body) ==
    [old EXCEPT !.r = body.r, !.g = body.g, !.b = body.b,
                !.brightness = body.brightness, !.filter = body.filter]

\* POST /settings (lines 205-225; lines 611-631 are the same handler)
PostSettings ==
    \E body \in SettingsBodies :
       /\ settings' = MergeSettings(settings, body)
       /\ resp' = Response("POST /settings", 1, 200, "message")
       /\ engine' = Idle
       /\ UNCHANGED requests

\* req.body of POST /api/timers
TimersBodies ==
    [autoDaylight : {"true", "false", "undefined"}, lightTimerEnabled : FlagInputs,
     co2TimerEnabled : {"false"}, lightTimers : LightTimersInputs,
     co2Timers : {<< <<>> >>}]

\* lines 266-273
StoredAutoDaylight(old, autoDaylight) ==
    IF IsBoolean(autoDaylight) THEN autoDaylight
    ELSE IF Truthy(old) THEN old ELSE "false"

\* lines 277-283
StoredTimers(old, body) ==
    [(IF old = <<>> THEN EmptyTimers ELSE old[1]) EXCEPT
        !.lightTimerEnabled = body.lightTimerEnabled,
        !.co2TimerEnabled = body.co2TimerEnabled,
        !.lightTimers = body.lightTimers,
        !.co2Timers = body.co2Timers]

\* POST /api/timers (lines 242-289)
PostTimers ==
    \E body \in TimersBodies :
       /\ settings' =
             [settings EXCEPT
                 !.autoDaylight = StoredAutoDaylight(@, body.autoDaylight),
                 !.timers = <<StoredTimers(@, body)>>]
       /\ resp' = Response("POST /api/timers", 1, 200, "message")
       /\ engine' = Idle
       /\ UNCHANGED requests

\* lines 302-313: the timers block after the request
CoupledTimers(old, autoDaylight) ==
    IF autoDaylight = "true"
    THEN LET timers == IF old = <<>> THEN EmptyTimers ELSE old[1]
         IN  IF timers.lightTimerEnabled = "true"
             THEN <<[timers EXCEPT !.lightTimerEnabled = "false"]>>
             ELSE <<timers>>
    ELSE old

\* lines 302-313: lightTimerDisabled
LightTimerDisabled(old, autoDaylight) ==
    IF autoDaylight = "true" /\ old # <<>> /\ old[1].lightTimerEnabled = "true"
    THEN "true" ELSE "false"

\* typeof autoDaylight !== "boolean": 400 (lines 294-296, 636-638)
NotBoolean(copy) ==
    \E autoDaylight \in FlagInputs :
       /\ ~IsBoolean(autoDaylight)
       /\ EarlyReturn("POST /api/save-auto-daylight", copy, 400, "failure")

\* POST /api/save-auto-daylight, copy 1 (lines 291-321)
SaveAutoDaylight1 ==
    \/ NotBoolean(1)
    \/ \E autoDaylight \in {"true", "false"} :
          /\ settings' = [settings EXCEPT !.timers = CoupledTimers(@, autoDaylight),
                                          !.autoDaylight = autoDaylight]
          /\ resp' = [Response("POST /api/save-auto-daylight", 1, 200, "success") EXCEPT
                         !.flag = LightTimerDisabled(settings.timers, autoDaylight)]
          /\ engine' = Idle
          /\ UNCHANGED requests

\* POST /api/save-auto-daylight, copy 2 (lines 633-646)
SaveAutoDaylight2 ==
    \/ NotBoolean(2)
    \/ \E autoDaylight \in {"true", "false"} :
          /\ settings' = [settings EXCEPT !.autoDaylight = autoDaylight]
          /\ resp' = Response("POST /api/save-auto-daylight", 2, 200, "success")
          /\ engine' = Idle
          /\ UNCHANGED requests

\* the {r, g, b} body of a colour response
ColorResponse(route, copy, c) ==
    [Response(route, copy, 200, "rgb") EXCEPT !.r = c.r, !.g = c.g, !.b = c.b]

\* GET /api/auto-light, copy 1 (lines 66-128): 400 without an email, 404 for
\* an email that is not stored, else the colour for the stored brightness
GetAutoLight1 ==
    \/ EarlyReturn("GET /api/auto-light", 1, 400, "error")
    \/ EarlyReturn("GET /api/auto-light", 1, 404, "error")
    \/ \E nowMins \in NowInputs :
          /\ resp' = ColorResponse("GET /api/auto-light", 1,
                                   DaylightColor1(settings.brightness, nowMins))
          /\ engine' = [Idle EXCEPT !.now = nowMins]
          /\ UNCHANGED <<settings, requests>>

\* GET /api/auto-light, copy 2 (lines 490-534)
GetAutoLight2 ==
    \E nowMins \in NowInputs :
       /\ resp' = ColorResponse("GET /api/auto-light", 2, DaylightColor2(nowMins))
       /\ engine' = [Idle EXCEPT !.now = nowMins]
       /\ UNCHANGED <<settings, requests>>

\* GET /api/light-timer-color (lines 352-421): 400 without an email, 404 for
\* an unknown email or a user without a timers block, else the timer colour
GetLightTimerColor ==
    \/ EarlyReturn("GET /api/light-timer-color", 1, 400, "error")
    \/ EarlyReturn("GET /api/light-timer-color", 1, 404, "error")
    \/ \E nowMins \in NowInputs :
          /\ settings.timers # <<>>
          /\ \E out \in {computeTimerColor(settings.timers[1], settings.brightness, nowMins)} :
                 /\ resp' = [Response("GET /api/light-timer-color", 1, 200, out.kind) EXCEPT
                                !.r = out.r, !.g = out.g, !.b = out.b]
                 /\ engine' = [index |-> out.index, state |-> out.state,
                               duration |-> out.duration, now |-> nowMins]
          /\ UNCHANGED <<settings, requests>>

Next ==
    \/ authMiddleware
    \/ PostSettings
    \/ PostTimers
    \/ SaveAutoDaylight1
    \/ SaveAutoDaylight2
    \/ GetAutoLight1
    \/ GetAutoLight2
    \/ GetLightTimerColor

Spec == Init /\ [][Next]_vars

(***************************************************************************)
(* The timer engine on its own: every stored timers block of the shapes    *)
(* below (POST /api/timers stores any body), read by the GET route         *)
(***************************************************************************)
EngineCatalog == {DayWindow, NightWindow, NoonWindow}

EngineTimerBlocks ==
    [lightTimerEnabled : FlagInputs, co2TimerEnabled : {"false"},
     lightTimers : {<<>>} \cup {<<l>> : l \in SeqsUpTo(EngineCatalog, MaxStoredTimers)},
     co2Timers : {<< <<>> >>}]
    \cup
    [lightTimerEnabled : {"true"}, co2TimerEnabled : {"false"},
     lightTimers : {<< <<w>> >> : w \in GridWindows}, co2Timers : {<< <<>> >>}]

InitEngine ==
    /\ \E brightness \in {<<>>, <<0>>, <<128>>, <<255>>}, timers \in EngineTimerBlocks :
          settings = [EmptySettings EXCEPT !.brightness = brightness,
                                           !.autoDaylight = "false",
                                           !.timers = <<timers>>]
    /\ resp = NoResponse
    /\ engine = Idle
    /\ requests = <<>>

NextEngine == GetLightTimerColor

SpecEngine == InitEngine /\ [][NextEngine]_vars

(***************************************************************************)
(* Settings saves submitted concurrently. A POST request waits in the      *)
(* server until the event loop calls its route callback; the callback      *)
(* (authMiddleware, then the handler) is one synchronous function:         *)
(* loadUsers is fs.readFileSync, saveUsers is fs.writeFileSync, and no     *)
(* handler awaits or yields between the two. The handler is taken apart    *)
(* into its load, modify and save steps, and the steps of different        *)
(* requests are ordered by the event loop alone.                           *)
(***************************************************************************)
\* requests the server holds at once
MaxRequests == 3

\* req.body of the POST /settings requests submitted together
StoreSettingsBodies == {body \in SettingsBodies : body.brightness \in {<<128>>, <<255>>}}

\* req.body.autoDaylight of the POST /api/save-auto-daylight requests
StoreFlagInputs == {"true", "false", "1"}

\* a request the server has received: its route, the copy of the handler
\* registered for it, its body, how far the callback has run, what loadUsers
\* returned (loaded), the users object the handler holds (users), the status
\* it answered with and its place in the order the responses were sent
Request(route, copy, body) ==
    [route |-> route, copy |-> copy, body |-> body, pc |-> "queued",
     loaded |-> <<>>, users |-> <<>>, status |-> 0, finished |-> 0]

RequestInputs ==
    {Request("POST /settings", 1, body) : body \in StoreSettingsBodies}
    \cup
    {Request("POST /api/save-auto-daylight", copy, [autoDaylight |-> a]) :
        copy \in {1, 2}, a \in StoreFlagInputs}

\* a callback that has been entered and has not returned
OnStack(q) == q.pc \in {"loaded", "modified"}

\* a scheduler that runs a step of one callback while another is on the stack
RunInterleaved(i) == TRUE

\* the event loop runs one callback at a time, to its return: request i takes
\* a step only when no other request's callback is on the stack
RunToCompletion(i) ==
    \A j \in DOMAIN requests : j # i => ~OnStack(requests[j])

\* responses sent so far
Finished == Cardinality({i \in DOMAIN requests : requests[i].pc = "done"})

\* the store when the requests arrive: the registered user, with or without
\* an enabled light timer stored by POST /api/timers
InitStore ==
    /\ settings \in
          {EmptySettings,
           [EmptySettings EXCEPT
               !.timers = <<[EmptyTimers EXCEPT !.lightTimerEnabled = "true",
                                                !.lightTimers = <<<<DayWindow>>>>]>>]}
    /\ resp = NoResponse
    /\ engine = Idle
    /\ requests = <<>>

\* a client sends a request while others are still held
Submit ==
    \E q \in RequestInputs :
       /\ Len(requests) < MaxRequests
       /\ requests' = Append(requests, q)
       /\ UNCHANGED <<settings, resp, engine>>

\* lines 294-296, 636-638: typeof autoDaylight !== "boolean" returns 400
\* before the store is read
Reject ==
    \E i \in DOMAIN requests :
       /\ requests[i].pc = "queued"
       /\ RunToCompletion(i)
       /\ requests[i].route = "POST /api/save-auto-daylight"
       /\ ~IsBoolean(requests[i].body.autoDaylight)
       /\ requests' = [requests EXCEPT ![i].pc = "done", ![i].status = 400,
                                       ![i].finished = Finished + 1]
       /\ resp' = Response("POST /api/save-auto-daylight", requests[i].copy, 400, "failure")
       /\ engine' = Idle
       /\ UNCHANGED settings

\* const users = loadUsers() (lines 207, 297, 639)
Load ==
    \E i \in DOMAIN requests :
       /\ requests[i].pc = "queued"
       /\ RunToCompletion(i)
       /\ IF requests[i].route = "POST /settings" THEN TRUE
          ELSE IsBoolean(requests[i].body.autoDaylight)
       /\ requests' = [requests EXCEPT ![i].pc = "loaded", ![i].loaded = <<settings>>,
                                       ![i].users = <<settings>>]
       /\ UNCHANGED <<settings, resp, engine>>

\* the handler's changes to the users object it loaded (lines 214-221,
\* 300-315, 642-643)
Modified(q) ==
    IF q.route = "POST /settings"
    THEN MergeSettings(q.users[1], q.body)
    ELSE IF q.copy = 1
         THEN [q.users[1] EXCEPT !.timers = CoupledTimers(@, q.body.autoDaylight),
                                 !.autoDaylight = q.body.autoDaylight]
         ELSE [q.users[1] EXCEPT !.autoDaylight = q.body.autoDaylight]

Modify ==
    \E i \in DOMAIN requests :
       /\ requests[i].pc = "loaded"
       /\ RunToCompletion(i)
       /\ requests' = [requests EXCEPT ![i].pc = "modified",
                                       ![i].users = <<Modified(requests[i])>>]
       /\ UNCHANGED <<settings, resp, engine>>

\* res.json of a save that went through (lines 224, 317-320, 645)
SaveResponse(q) ==
    IF q.route = "POST /settings"
    THEN Response("POST /settings", q.copy, 200, "message")
    ELSE IF q.copy = 1
         THEN [Response(q.route, 1, 200, "success") EXCEPT
                  !.flag = LightTimerDisabled(q.loaded[1].timers, q.body.autoDaylight)]
         ELSE Response(q.route, 2, 200, "success")

\* saveUsers(users) and the response (lines 222-224, 316-320, 644-645)
Save ==
    \E i \in DOMAIN requests :
       /\ requests[i].pc = "modified"
       /\ RunToCompletion(i)
       /\ settings' = requests[i].users[1]
       /\ requests' = [requests EXCEPT ![i].pc = "done", ![i].status = 200,
                                       ![i].finished = Finished + 1]
       /\ resp' = SaveResponse(requests[i])
       /\ engine' = Idle

NextStore ==
    \/ Submit
    \/ Reject
    \/ Load
    \/ Modify
    \/ Save

SpecStore == InitStore /\ [][NextStore]_vars

(***************************************************************************)
(* Properties                                                              *)
(***************************************************************************)
\* the stored timers.lightTimerEnabled ("undefined" without a timers block)
StoredLightTimerEnabled(s) ==
    IF s.timers = <<>> THEN "undefined" ELSE s.timers[1].lightTimerEnabled

SavedAutoDaylight(r) == r.route = "POST /api/save-auto-daylight" /\ r.status = 200

\* C1: a successful POST /api/save-auto-daylight with autoDaylight = true leaves
\* the stored autoDaylight true and lightTimerEnabled not true, and answers
\* lightTimerDisabledByAutoDaylight = true exactly when lightTimerEnabled was
\* true before the request; with autoDaylight = false lightTimerEnabled is
\* unchanged and the flag is not set. (A body without the flag counts as flag
\* not set.)
C1_CouplingOnSave ==
    [][SavedAutoDaylight(resp') =>
         IF settings'.autoDaylight = "true"
         THEN /\ StoredLightTimerEnabled(settings') # "true"
              /\ (resp'.flag = "true") <=> (StoredLightTimerEnabled(settings) = "true")
         ELSE /\ settings'.autoDaylight = "false"
              /\ StoredLightTimerEnabled(settings') = StoredLightTimerEnabled(settings)
              /\ resp'.flag # "true"]_vars

AutoLightColor(r) == r.route = "GET /api/auto-light" /\ r.status = 200

\* C2: outside [06:00, 18:00), for a stored brightness b in {0, 128, 255}, GET
\* /api/auto-light answers {round(20*b/255), round(20*b/255), round(60*b/255)}
C2_NightScaled ==
    (/\ AutoLightColor(resp)
     /\ IsNight(engine.now)
     /\ settings.brightness \in {<<0>>, <<128>>, <<255>>})
    => LET b == settings.brightness[1]
       IN  /\ resp.r = Round(20 * b, 255)
           /\ resp.g = Round(20 * b, 255)
           /\ resp.b = Round(60 * b, 255)

\* C7: every {r, g, b} answer of GET /api/auto-light and GET
\* /api/light-timer-color has each channel in 0..255
C7_ChannelsInRange ==
    (resp.kind = "rgb") => (resp.r \in 0..255 /\ resp.g \in 0..255 /\ resp.b \in 0..255)

\* C8: the stored settings never have autoDaylight = true and
\* timers.lightTimerEnabled = true together
C8_NeverBothEngines ==
    ~(settings.autoDaylight = "true" /\ StoredLightTimerEnabled(settings) = "true")

TimerAnswer == resp.route = "GET /api/light-timer-color" /\ resp.status = 200

\* the stored lightTimers array, <<>> when it is no array
StoredList ==
    IF settings.timers # <<>> /\ settings.timers[1].lightTimers # <<>>
    THEN settings.timers[1].lightTimers[1] ELSE <<>>

\* one of the three state tests of the loop body holds for the timer at nowMins
Contains(timer, nowMins) ==
    \E t \in {ParseTimer(timer)} :
       InFadeIn(t, nowMins) \/ InPeak(t, nowMins) \/ InFadeOut(t, nowMins)

\* C3 as stated: with lightTimerEnabled not true, or no or an empty window
\* list, GET /api/light-timer-color answers {color: null}
C3_NotTrueIsNull ==
    (TimerAnswer /\ (StoredLightTimerEnabled(settings) # "true" \/ StoredList = <<>>))
    => resp.kind = "null"

\* C3, amended: with a falsy lightTimerEnabled, or lightTimers no array or an
\* empty one, GET /api/light-timer-color answers {color: null}, for every
\* time of day and brightness
C3_DisabledIsNull ==
    (TimerAnswer /\ (~Truthy(StoredLightTimerEnabled(settings)) \/ StoredList = <<>>))
    => resp.kind = "null"

\* a disabled timer whose first window contains now, answered with null
C3_Witness ==
    /\ TimerAnswer
    /\ StoredLightTimerEnabled(settings) = "false"
    /\ StoredList # <<>>
    /\ Contains(StoredList[1], engine.now)
    /\ settings.brightness = <<128>>
    /\ resp.kind = "null"

\* the positions of the stored windows that contain nowMins
Matching(nowMins) == {i \in 1..Len(StoredList) : Contains(StoredList[i], nowMins)}

Lowest(S) == CHOOSE i \in S : \A j \in S : i <= j

SameColor(r, out) == r.r = out.r /\ r.g = out.g /\ r.b = out.b

\* C4: with the timer enabled, the answer is the colour computed from the
\* lowest-index window that contains now, and null exactly when no window
\* contains now
C4_FirstMatchWins ==
    (TimerAnswer /\ Truthy(StoredLightTimerEnabled(settings))
                 /\ settings.timers[1].lightTimers # <<>>)
    => IF Matching(engine.now) = {}
       THEN resp.kind = "null" /\ engine.index = 0
       ELSE \E first \in {Lowest(Matching(engine.now))} :
               /\ resp.kind = "rgb"
               /\ engine.index = first
               /\ SameColor(resp, EvalTimer(StoredList[first], engine.now,
                                            BrightnessOrDefault(settings.brightness)))

\* two windows contain now and would give different colours; the first decided
C4_Witness ==
    /\ TimerAnswer
    /\ Truthy(StoredLightTimerEnabled(settings))
    /\ Len(StoredList) = 2
    /\ Matching(engine.now) = {1, 2}
    /\ engine.index = 1
    /\ ~SameColor(resp, EvalTimer(StoredList[2], engine.now,
                                  BrightnessOrDefault(settings.brightness)))

\* the four mod-1440 durations of a parsed timer add up to 0 or 1440
Cyclic(t) ==
    CyclicDistance(t.fadeIn, t.peakStart) + CyclicDistance(t.peakStart, t.peakEnd)
      + CyclicDistance(t.peakEnd, t.fadeOut) + CyclicDistance(t.fadeOut, t.fadeIn)
        \in {0, MinutesPerDay}

\* C5: for a cyclically ordered first window with peakStart later than peakEnd,
\* every now >= peakStart or < peakEnd is answered as peak, with the full colour
\* scaled by brightness, and no other now is answered as this window's peak
C5_MidnightWrapPeak ==
    (TimerAnswer /\ Truthy(StoredLightTimerEnabled(settings)) /\ StoredList # <<>>)
    => \E t \in {ParseTimer(StoredList[1])}, b \in {BrightnessOrDefault(settings.brightness)} :
          (Cyclic(t) /\ t.peakStart > t.peakEnd)
          => IF engine.now >= t.peakStart \/ engine.now < t.peakEnd
             THEN /\ engine.index = 1 /\ engine.state = "peak"
                  /\ resp.kind = "rgb"
                  /\ resp.r = Round(t.color.r * b, 255)
                  /\ resp.g = Round(t.color.g * b, 255)
                  /\ resp.b = Round(t.color.b * b, 255)
             ELSE ~(engine.index = 1 /\ engine.state = "peak")

\* peakStart 22:00, peakEnd 02:00 at 23:00: the peak colour at brightness 128
C5_Witness ==
    /\ TimerAnswer
    /\ StoredList # <<>>
    /\ StoredList[1].peakStart = T("2", "2", "0", "0")
    /\ StoredList[1].peakEnd = T("0", "2", "0", "0")
    /\ Cyclic(ParseTimer(StoredList[1]))
    /\ engine.now = 1380
    /\ engine.state = "peak"
    /\ settings.brightness = <<128>>
    /\ resp.r = 128 /\ resp.g = 77 /\ resp.b = 0

\* the numerator and denominator of f for the state that answered: elapsed /
\* duration in fade-in, 1 in peak, 1 - elapsed / duration in fade-out
ProgressOf(t, state, nowMins) ==
    CASE state = "fadeIn" ->
            <<CyclicDistance(t.fadeIn, nowMins), CyclicDistance(t.fadeIn, t.peakStart)>>
      [] state = "fadeOut" ->
            <<CyclicDistance(t.peakEnd, t.fadeOut) - CyclicDistance(t.peakEnd, nowMins),
              CyclicDistance(t.peakEnd, t.fadeOut)>>
      [] OTHER -> <<1, 1>>

\* c * f * brightness / 255 is exactly halfway between two integers
IsHalf(c, f, brightness) ==
    /\ (2 * c * f[1] * brightness) % (f[2] * 255) = 0
    /\ ((2 * c * f[1] * brightness) \div (f[2] * 255)) % 2 = 1

\* round(c * f * brightness / 255), exactly, halves up
ExactChannel(c, f, brightness) == Round(c * f[1] * brightness, f[2] * 255)

\* the answers for the window fadeIn 06:00, peakStart 07:00, peakEnd 19:00,
\* fadeOut 20:00, #FF9900 at brightness 255
RoundTripExample ==
    (/\ StoredList # <<>>
     /\ StoredList[1] = DayWindow
     /\ BrightnessOrDefault(settings.brightness) = 255)
    => /\ engine.now \in {390, 1170} => (resp.r = 128 /\ resp.g = 77 /\ resp.b = 0)
       /\ engine.now = 720 => (resp.r = 255 /\ resp.g = 153 /\ resp.b = 0)

\* C6 as stated: each channel of a timer colour is exactly
\* round(colorChannel * f * brightness / 255), and the example window gives
\* {128,77,0} at 06:30, {255,153,0} at 12:00 and {128,77,0} at 19:30
C6_ExactChannels ==
    (TimerAnswer /\ resp.kind = "rgb")
    => /\ \E t \in {ParseTimer(StoredList[engine.index])},
             b \in {BrightnessOrDefault(settings.brightness)} :
             \E f \in {ProgressOf(t, engine.state, engine.now)} :
                /\ resp.r = ExactChannel(t.color.r, f, b)
                /\ resp.g = ExactChannel(t.color.g, f, b)
                /\ resp.b = ExactChannel(t.color.b, f, b)
       /\ RoundTripExample

\* a channel is the exact rounded value, or at an exact half either neighbour
ChannelOk(v, c, f, b) ==
    IF IsHalf(c, f, b) THEN v \in {ExactChannel(c, f, b) - 1, ExactChannel(c, f, b)}
    ELSE v = ExactChannel(c, f, b)

\* C6, amended: each channel of a timer colour is round(colorChannel * f *
\* brightness / 255) unless that value is exactly halfway between two
\* integers, where it is one of the two; the example window gives {128,77,0}
\* at 06:30, {255,153,0} at 12:00 and {128,77,0} at 19:30
C6_ChannelsUpToHalves ==
    (TimerAnswer /\ resp.kind = "rgb")
    => /\ \E t \in {ParseTimer(StoredList[engine.index])},
             b \in {BrightnessOrDefault(settings.brightness)} :
             \E f \in {ProgressOf(t, engine.state, engine.now)} :
                /\ ChannelOk(resp.r, t.color.r, f, b)
                /\ ChannelOk(resp.g, t.color.g, f, b)
                /\ ChannelOk(resp.b, t.color.b, f, b)
       /\ RoundTripExample

\* the example window half-way through its fade-out, at brightness 255
C6_Witness ==
    /\ TimerAnswer
    /\ StoredList = <<DayWindow>>
    /\ settings.brightness = <<255>>
    /\ engine.now = 1170
    /\ engine.state = "fadeOut"
    /\ resp.r = 128 /\ resp.g = 77 /\ resp.b = 0

\* how many of the three state tests hold
StatesTrue(t, nowMins) ==
    (IF InFadeIn(t, nowMins) THEN 1 ELSE 0) + (IF InPeak(t, nowMins) THEN 1 ELSE 0)
      + (IF InFadeOut(t, nowMins) THEN 1 ELSE 0)

\* C9: for every stored window in cyclic order, at most one of the fade-in,
\* peak and fade-out tests is true, at the minute the route was asked at and
\* at every other minute of the day
C9_AtMostOneState ==
    TimerAnswer
    => \A i \in 1..Len(StoredList) :
          \E t \in {ParseTimer(StoredList[i])} :
             Cyclic(t) =>
                /\ StatesTrue(t, engine.now) <= 1
                /\ engine.now = 720 =>
                      \A nowMins \in 0..(MinutesPerDay - 1) : StatesTrue(t, nowMins) <= 1

\* a window in cyclic order with all four boundaries different, asked inside
\* its fade-out, which answered
C9_Witness ==
    /\ TimerAnswer
    /\ Len(StoredList) = 1
    /\ \E t \in {ParseTimer(StoredList[1])} :
          /\ Cyclic(t)
          /\ Cardinality({t.fadeIn, t.peakStart, t.peakEnd, t.fadeOut}) = 4
          /\ t.peakStart > t.peakEnd
          /\ InFadeOut(t, engine.now)
          /\ StatesTrue(t, engine.now) = 1
    /\ engine.state = "fadeOut"

\* C10: a fade progress is only computed with a non-zero duration; a window
\* with fadeIn = peakStart never answers as fade-in and one with peakEnd =
\* fadeOut never answers as fade-out
C10_NoZeroDurationFade ==
    TimerAnswer
    => /\ resp.kind # "rgbNaN"
       /\ engine.state \in {"fadeIn", "fadeOut"} => engine.duration > 0
       /\ engine.index > 0 =>
             \E t \in {ParseTimer(StoredList[engine.index])} :
                /\ t.fadeIn = t.peakStart => engine.state # "fadeIn"
                /\ t.peakEnd = t.fadeOut => engine.state # "fadeOut"

\* a window without fade-in, asked at fadeIn = peakStart: answered as peak
C10_Witness ==
    /\ TimerAnswer
    /\ engine.index = 1
    /\ \E t \in {ParseTimer(StoredList[1])} :
          /\ t.fadeIn = t.peakStart
          /\ engine.now = t.fadeIn
    /\ engine.state = "peak"
    /\ resp.kind = "rgb"

\* the requests of a route that were answered 200
Saved(route) ==
    {i \in DOMAIN requests : requests[i].route = route /\ requests[i].status = 200}

\* of a set of answered requests, the one answered last
LastOf(S) == CHOOSE i \in S : \A j \in S : requests[j].finished <= requests[i].finished

\* C11: no lost updates. While a handler is between its loadUsers and its
\* saveUsers the store still holds what it loaded (no other handler's write
\* has come in between), and once requests have been answered 200 the store
\* holds r, g, b, brightness and filter of the last POST /settings answered
\* and autoDaylight of the last POST /api/save-auto-daylight answered,
\* whatever the order in which the requests were submitted and run.
C11_NoLostUpdates ==
    /\ \A i \in DOMAIN requests :
          OnStack(requests[i]) => requests[i].loaded = <<settings>>
    /\ Saved("POST /settings") # {} =>
          LET body == requests[LastOf(Saved("POST /settings"))].body
          IN  /\ settings.r = body.r
              /\ settings.g = body.g
              /\ settings.b = body.b
              /\ settings.brightness = body.brightness
              /\ settings.filter = body.filter
    /\ Saved("POST /api/save-auto-daylight") # {} =>
          settings.autoDaylight =
             requests[LastOf(Saved("POST /api/save-auto-daylight"))].body.autoDaylight

\* a POST /settings and a POST /api/save-auto-daylight that were held by the
\* server at the same time (the one submitted later was answered first) and
\* were both answered 200, on a store whose timers block the second one read
C11_Witness ==
    \E i \in Saved("POST /settings"), j \in Saved("POST /api/save-auto-daylight") :
       /\ \/ i < j /\ requests[j].finished < requests[i].finished
          \/ j < i /\ requests[i].finished < requests[j].finished
       /\ requests[j].body.autoDaylight = "true"
       /\ settings.timers # <<>>
       /\ settings.brightness = requests[i].body.brightness
       /\ settings.autoDaylight = "true"

====
